---- MODULE Spec2Model ----
(***************************************************************************)
(* SignalDeck Multi-State (src/app.py): one run of the Streamlit script is *)
(* a render cycle.  The cycle loads the selected state's CSV, normalises   *)
(* the GP names, applies the sidebar filters, stops on an empty result,    *)
(* shows the summary metrics and then renders one of three views.          *)
(*                                                                         *)
(* Representation.  Text (sector names, GP names, the free-text query) is  *)
(* a sequence of one-character strings, so that lower(), "in", re.search   *)
(* and str.contains are computed character by character.  Scores are in    *)
(* hundredths (0.45 is 45).  A DataFrame is a sequence of rows; a row is a *)
(* function from column name to value and carries its pandas index label   *)
(* under "index".  Columns that only feed chart rendering (Investor Count, *)
(* Days Since Filing, Fund Momentum, ...) are not carried.  The intent     *)
(* buckets "Hot", "Warm", "Cold" stand for the glyph-prefixed labels of    *)
(* the source.  A script variable that has not been assigned yet holds     *)
(* the empty sequence.                                                     *)
(***************************************************************************)
EXTENDS Integers, Sequences, FiniteSets, TLC

VARIABLES pc,               \* the place the script run has reached
          state, view,      \* the sidebar's state and view mode (lines 74-79)
          cached,           \* st.cache_data holds load_state_csv(state) (line 43)
          fileExists, csv,  \* path.exists() (line 46) and the rows read (line 50)
          df,               \* the loaded frame (line 81), GP names normalised (84-91)
          sector_filter, intent_filter, min_score,   \* lines 93-107
          filtered,         \* lines 109-114
          metrics,          \* the four st.metric values (lines 121-125)
          query, temp,      \* Founder view: the text input and the working frame
          summary,          \* <<len(temp)>> once st.success has reported it (line 171)
          insight,          \* <<Fund Name of temp.iloc[0]>> (lines 185-200)
          fig,              \* the rows of the Founder scatter chart: temp.head(50)
          capital_share_20, gp_df, top_gp,   \* Institutional view
          intent_time, capital_share,        \* Advanced view
          rendered,         \* what the run has put on the page so far
          temp_rev          \* the composite-rank step run on the reversed frame

inputVars == <<state, view, cached, fileExists, csv>>

filterVars == <<sector_filter, intent_filter, min_score, filtered>>

founderVars == <<query, temp, summary, insight, fig>>

instVars == <<capital_share_20, gp_df, top_gp>>

advVars == <<intent_time, capital_share>>

vars == <<pc, inputVars, df, filterVars, metrics, founderVars, instVars, advVars,
          rendered, temp_rev>>

(***************************************************************************)
(* Bounds of the model.                                                    *)
(***************************************************************************)
\* Largest number of rows of a CSV file built freely from the row pool.
MaxRows == 3
\* Largest number of rows of a CSV file of the patterned (large) family.
MaxRowsL == 10

(***************************************************************************)
(* Generic helpers.                                                        *)
(***************************************************************************)
Min(a, b) == IF a <= b THEN a ELSE b

Range(s) == {s[i] : i \in DOMAIN s}

RECURSIVE SumSeq(_)
SumSeq(s) == IF s = <<>> THEN 0 ELSE Head(s) + SumSeq(Tail(s))

RECURSIVE Gcd(_, _)
Gcd(a, b) == IF b = 0 THEN a ELSE Gcd(b, a % b)

Reverse(s) == [i \in 1..Len(s) |-> s[Len(s) + 1 - i]]

\* df[col] as a sequence of values.
Col(s, col) == [i \in 1..Len(s) |-> s[i][col]]

(***************************************************************************)
(* Text.  The characters of a text are those of Latin-1 (U+0000-U+00FF);   *)
(* lower(), title() and strip() are Python's, which follow Unicode.        *)
(***************************************************************************)
\* The letters A-Z and a-z: the classes [A-Z] and [a-z] of a regular expression.
ASCII_UPPER == <<"A","B","C","D","E","F","G","H","I","J","K","L","M","N","O","P","Q","R","S","T","U","V","W","X","Y","Z">>

ASCII_LOWER == <<"a","b","c","d","e","f","g","h","i","j","k","l","m","n","o","p","q","r","s","t","u","v","w","x","y","z">>

\* The uppercase letters of Latin-1 and, position by position, their lowercase.
UPPER == ASCII_UPPER \o <<"À","Á","Â","Ã","Ä","Å","Æ","Ç","È","É","Ê","Ë","Ì","Í","Î","Ï","Ð","Ñ","Ò","Ó","Ô","Õ","Ö","Ø","Ù","Ú","Û","Ü","Ý","Þ">>

LOWER == ASCII_LOWER \o <<"à","á","â","ã","ä","å","æ","ç","è","é","ê","ë","ì","í","î","ï","ð","ñ","ò","ó","ô","õ","ö","ø","ù","ú","û","ü","ý","þ">>

\* The lowercase letters of Latin-1 with no uppercase letter in Latin-1: the
\* ordinal indicators, the sharp s, y with diaeresis and the micro sign.
LowerOnly == {"ª", "º", "ß", "ÿ", "µ"}

IsAsciiUpper(c) == \E i \in DOMAIN ASCII_UPPER : ASCII_UPPER[i] = c

IsAsciiLower(c) == \E i \in DOMAIN ASCII_LOWER : ASCII_LOWER[i] = c

IsUpper(c) == \E i \in DOMAIN UPPER : UPPER[i] = c

IsLower(c) == (\E i \in DOMAIN LOWER : LOWER[i] = c) \/ c \in LowerOnly

IsCased(c) == IsUpper(c) \/ IsLower(c)

\* str.lower() of one character.
LowerChar(c) == IF IsUpper(c) THEN LOWER[CHOOSE i \in DOMAIN UPPER : UPPER[i] = c] ELSE c

\* U+0178, the title-case form of y with diaeresis, is a character a string of
\* this module cannot hold; this name stands for that one character.
CapitalYDiaeresis == "U+0178"

\* The title-case form of one character, as a text: the sharp s becomes "Ss",
\* the micro sign the Greek capital mu, the ordinal indicators stay.
TitleChar(c) ==
    IF \E i \in DOMAIN LOWER : LOWER[i] = c
    THEN <<UPPER[CHOOSE i \in DOMAIN LOWER : LOWER[i] = c]>>
    ELSE IF c = "ß" THEN <<"S", "s">>
    ELSE IF c = "ÿ" THEN <<CapitalYDiaeresis>>
    ELSE IF c = "µ" THEN <<"Μ">>
    ELSE <<c>>

\* str.lower()
RECURSIVE str_lower(_)
str_lower(s) == IF s = <<>> THEN <<>> ELSE <<LowerChar(Head(s))>> \o str_lower(Tail(s))

\* w occurs in s at position i.
MatchAt(s, i, w) == /\ i >= 1
                    /\ i + Len(w) - 1 <= Len(s)
                    /\ SubSeq(s, i, i + Len(w) - 1) = w

\* Python's "w in s" (and str.contains for a pattern of plain letters).
Contains(s, w) == \E i \in 1..(Len(s) + 1) : MatchAt(s, i, w)

(***************************************************************************)
(* GP name normalisation (lines 84-91).                                    *)
(***************************************************************************)
\* .str.replace(r"([a-z])([A-Z])", r"\1 \2", regex=True): a space goes
\* between a letter of a-z and a letter of A-Z right after it.
RECURSIVE CamelSplit(_)
CamelSplit(s) ==
    IF Len(s) < 2 THEN s
    ELSE IF IsAsciiLower(s[1]) /\ IsAsciiUpper(s[2])
         THEN <<s[1], " ", s[2]>> \o CamelSplit(SubSeq(s, 3, Len(s)))
         ELSE <<s[1]>> \o CamelSplit(Tail(s))

\* .str.replace("_", " ")
ReplaceUnderscore(s) == [i \in 1..Len(s) |-> IF s[i] = "_" THEN " " ELSE s[i]]

\* .str.title(): a character that follows a cased character is lowercased,
\* any other is put in title case.
RECURSIVE TitleFrom(_, _)
TitleFrom(s, previous_is_cased) ==
    IF s = <<>> THEN <<>>
    ELSE (IF previous_is_cased THEN <<LowerChar(Head(s))>> ELSE TitleChar(Head(s)))
         \o TitleFrom(Tail(s), IsCased(Head(s)))

Title(s) == TitleFrom(s, FALSE)

\* The characters str.strip() removes: tab, line feed, vertical tab, form feed,
\* carriage return, the four separators U+001C-U+001F, space, next line
\* (U+0085) and no-break space (U+00A0).
Whitespace == {"\t", "\n", "", "\f", "\r", "", "", "", "", " ", "", " "}

\* .str.strip()
RECURSIVE LStrip(_)
LStrip(s) == IF s # <<>> /\ Head(s) \in Whitespace THEN LStrip(Tail(s)) ELSE s

Strip(s) == Reverse(LStrip(Reverse(LStrip(s))))

NormalizeGP(s) == Strip(Title(ReplaceUnderscore(CamelSplit(s))))

(***************************************************************************)
(* Configuration of the script.                                            *)
(***************************************************************************)
\* The keys of STATE_FOLDERS (lines 34-39).
STATE_FOLDERS == {"CA", "NY", "MA", "TX"}

\* The options of the "View Mode" radio (lines 75-79).
ViewModes == {"Founder View", "Institutional View", "Advanced Market Analytics"}

\* The options of the "Intent Bucket" multiselect (line 100).
Buckets == {"Hot", "Warm", "Cold"}

\* Its default (line 101).
DefaultIntent == {"Hot", "Warm"}

\* The slider of line 104-107: 0.0 to 1.0 in steps of 0.05, default 0.45.
SliderValues == {5 * k : k \in 0..20}

DefaultMinScore == 45

(***************************************************************************)
(* The files: rows of the raw CSV schema.                                  *)
(***************************************************************************)
sAI == <<"A","I">>

sFintech == <<"F","i","n","t","e","c","h">>

sRetail == <<"R","e","t","a","i","l">>

gJaneDoe == <<"j","a","n","e","D","o","e">>

gJane_Doe == <<"j","a","n","e","_","d","o","e">>

\* A name with a tab in front, a space behind and a letter outside a-z.
gBO == <<"\t","b","é","B","O"," ">>

RawRow(name, sector, bucket, active, sold, velocity, score, gp, date) ==
    [issuer_name |-> name, fund_vertical |-> sector, intent_bucket |-> bucket,
     actively_deploying |-> active, decayed_amount_sold |-> sold,
     sale_velocity |-> velocity, investor_intent_score |-> score,
     related_person_name |-> gp, filing_date |-> date]

\* The rows a freely built file draws from.  Two copies of one pool row in a
\* file tie on every metric; the third row has no recent capital at all.
RowPool == { RawRow("Alpha", sAI, "Hot", 1, 2, 1, 80, gJaneDoe, <<2025, 1, 15>>),
             RawRow("Beta", sFintech, "Warm", 1, 1, 2, 45, gJane_Doe, <<2025, 3, 2>>),
             RawRow("Gamma", sRetail, "Cold", 0, 0, 0, 50, gBO, <<2025, 3, 20>>) }

\* Every file of at most MaxRows rows over the pool.
SmallFiles == UNION { [1..n -> RowPool] : n \in 0..MaxRows }

\* The patterned family: row i of a file has its own capital, velocity and
\* score, so no two rows tie on a metric, and sectors and buckets alternate.
PatternRow(i, k) ==
    RawRow("Fund", IF (i + k) % 2 = 0 THEN sAI ELSE sFintech,
           IF (i + k) % 3 = 0 THEN "Cold" ELSE IF (i + k) % 3 = 1 THEN "Hot" ELSE "Warm",
           i % 2, IF k = 0 THEN i ELSE ((7 * i) % 13) + 1,
           ((5 * i + k) % 17) + 1, 45 + (((3 * i + k) % 11) * 5), gJaneDoe,
           <<2025, 1 + (i % 3), 1 + i>>)

LargeFiles == { [i \in 1..n |-> PatternRow(i, k)] : n \in 0..MaxRowsL, k \in 0..1 }

(***************************************************************************)
(* load_state_csv (lines 43-70).                                           *)
(***************************************************************************)
\* The value of a column the frame does not have (signal_rank before line 154).
NoColumn == 0 - 1

\* df.rename(columns=...) of the columns carried, with the row's position in
\* the file as its index label.
Rename(raw, i) ==
    ("index" :> i) @@ ("Fund Name" :> raw.issuer_name) @@ ("Sector" :> raw.fund_vertical)
    @@ ("Intent Bucket" :> raw.intent_bucket)
    @@ ("Actively Deploying" :> raw.actively_deploying)
    @@ ("Recent Capital Deployed" :> raw.decayed_amount_sold)
    @@ ("Capital Velocity" :> raw.sale_velocity)
    @@ ("Investor Intent Score" :> raw.investor_intent_score)
    @@ ("GP Name" :> raw.related_person_name) @@ ("Filing Date" :> raw.filing_date)
    @@ ("signal_rank" :> NoColumn)

read_csv(rows) == [i \in 1..Len(rows) |-> Rename(rows[i], i)]


(***************************************************************************)
(* The sidebar filters (lines 93-114).                                     *)
(***************************************************************************)
\* The options of the "Sector" multiselect: sorted(df["Sector"].dropna().unique()).
SectorOptions(d) == {d[i]["Sector"] : i \in 1..Len(d)}

\* filtered["Sector"].isin(sector_filter), row by row (line 111).
SectorMask(r, S) == r["Sector"] \in S

\* filtered["Intent Bucket"].isin(intent_filter), row by row (line 113).
BucketMask(r, B) == r["Intent Bucket"] \in B

\* A variant of ScoreMask with a strict comparison.
ScoreMaskStrict(r, t) == r["Investor Intent Score"] > t

\* filtered["Investor Intent Score"] >= min_score, row by row (line 114).
ScoreMask(r, t) == r["Investor Intent Score"] >= t

\* Lines 109-114: boolean indexing keeps the rows whose mask is true, in order.
ApplyFilters(d, S, B, t) ==
    LET InS(r) == SectorMask(r, S)
        InB(r) == BucketMask(r, B)
        AtLeast(r) == ScoreMask(r, t)
        f1 == IF S # {} THEN SelectSeq(d, InS) ELSE d
        f2 == IF B # {} THEN SelectSeq(f1, InB) ELSE f1
    IN  SelectSeq(f2, AtLeast)

\* A variant of AfterEmptyCheck that never stops.
AfterEmptyCheckNoStop(f) == "metrics"

\* Lines 116-118: st.warning and st.stop() on an empty result.
AfterEmptyCheck(f) == IF Len(f) = 0 THEN "stopped" ELSE "metrics"

(***************************************************************************)
(* The summary metrics (lines 121-125).                                    *)
(***************************************************************************)
\* The k-th smallest value of a non-empty sequence of numbers.
KthSmallest(v, k) ==
    CHOOSE x \in Range(v) :
        /\ Cardinality({i \in DOMAIN v : v[i] < x}) < k
        /\ Cardinality({i \in DOMAIN v : v[i] <= x}) >= k

\* Twice Series.median(): the middle value, or the sum of the two middle ones.
Median2x(v) ==
    LET n == Len(v)
    IN  IF n % 2 = 1 THEN 2 * KthSmallest(v, (n + 1) \div 2)
        ELSE KthSmallest(v, n \div 2) + KthSmallest(v, (n \div 2) + 1)

Metrics(f) ==
    [active_funds |-> SumSeq(Col(f, "Actively Deploying")),
     recent_capital |-> SumSeq(Col(f, "Recent Capital Deployed")),
     median_intent_2x |-> Median2x(Col(f, "Investor Intent Score")),
     unique_funds |-> Cardinality(Range(Col(f, "Fund Name")))]

\* The branch of lines 128 / 221 / 291.
ViewBranch(v) ==
    IF v = "Founder View" THEN "founder"
    ELSE IF v = "Institutional View" THEN "institutional" ELSE "advanced"

(***************************************************************************)
(* Shared frame operations.                                                *)
(***************************************************************************)
\* A variant of head that keeps one row more.
headOneMore(s, n) == SubSeq(s, 1, Min(n + 1, Len(s)))

\* DataFrame.head(n)
head(s, n) == SubSeq(s, 1, Min(n, Len(s)))

\* DataFrame.sort_values(col, ascending=False) with the default kind
\* ("quicksort", which pandas documents as not stable): the result is some
\* arrangement of the rows in descending order of the column, and the order of
\* rows that tie on the column is whatever the sort of the build makes it.
\* The operator is the set of arrangements a build can produce.
RECURSIVE Arrangements(_, _)
Arrangements(R, col) ==
    IF R = {} THEN {<<>>}
    ELSE LET top == {r \in R : \A o \in R : o[col] <= r[col]}
         IN  UNION { { <<r>> \o t : t \in Arrangements(R \ {r}, col) } : r \in top }

sort_values(s, col) == Arrangements(Range(s), col)

\* a / b of two numpy numbers, as the pair <<numerator, denominator>> in lowest
\* terms.  Division by zero raises nothing: 0/0 is NaN, written <<0, 0>>, and
\* x/0 is an infinity, written <<1, 0>> or <<-1, 0>>.
Divide(a, b) ==
    IF b = 0 THEN <<IF a > 0 THEN 1 ELSE IF a < 0 THEN 0 - 1 ELSE 0, 0>>
    ELSE LET g == Gcd(a, b) IN <<a \div g, b \div g>>

NaN == <<0, 0>>

\* The Python literal 0 of line 340, as a ratio.
Zero == <<0, 1>>

(***************************************************************************)
(* Founder view: the query interpreter (lines 137-171).                    *)
(***************************************************************************)
kw_largest == <<"l","a","r","g","e","s","t">>

kw_big == <<"b","i","g">>

kw_fast == <<"f","a","s","t">>

kw_quick == <<"q","u","i","c","k">>

kw_moving == <<"m","o","v","i","n","g">>

kw_hot == <<"h","o","t">>

kw_warm == <<"w","a","r","m">>

kw_cold == <<"c","o","l","d">>

kw_email == <<"e","m","a","i","l">>

kw_this_week == <<"t","h","i","s"," ","w","e","e","k">>

kw_reach_out == <<"r","e","a","c","h"," ","o","u","t">>

\* The alternation of the regular expression of line 142, in its order.
SectorVocabulary ==
    << <<"f","i","n","t","e","c","h">>, <<"s","a","a","s">>, <<"a","i">>,
       <<"c","r","y","p","t","o">>, <<"h","e","a","l","t","h">>,
       <<"c","l","i","m","a","t","e">> >>

\* re.search(r"(w1|w2|...)", s): the leftmost position where an alternative
\* matches and, there, the first alternative that does.  <<>> is None, <<w>>
\* is a match whose group(1) is w.
re_search(words, s) ==
    LET hits == {i \in 1..Len(s) : \E k \in DOMAIN words : MatchAt(s, i, words[k])}
    IN  IF hits = {} THEN <<>>
        ELSE LET i == CHOOSE x \in hits : \A y \in hits : x <= y
                 k == CHOOSE x \in DOMAIN words :
                          /\ MatchAt(s, i, words[x])
                          /\ \A y \in DOMAIN words : MatchAt(s, i, words[y]) => x <= y
             IN  <<words[k]>>

\* Line 142 on q = query.lower().
SectorMatch(q) == re_search(SectorVocabulary, q)

\* Line 145: temp["Sector"].str.lower().str.contains(sector).
SectorContains(t, sector) ==
    LET Has(r) == Contains(str_lower(r["Sector"]), sector) IN SelectSeq(t, Has)

\* The conditions of lines 147, 150, 153 and 168.
WantsLargest(q) == Contains(q, kw_largest) \/ Contains(q, kw_big)

WantsFast(q) == Contains(q, kw_fast) \/ Contains(q, kw_quick) \/ Contains(q, kw_moving)

WantsComposite(q) ==
    Contains(q, kw_largest) /\ (Contains(q, kw_fast) \/ Contains(q, kw_quick))

WantsTopK(q) ==
    Contains(q, kw_email) \/ Contains(q, kw_this_week) \/ Contains(q, kw_reach_out)

\* A variant of RankAverage2x that ranks tied rows by position (method "first").
RankFirst2x(v, i) ==
    2 * (Cardinality({j \in DOMAIN v : v[j] < v[i]})
         + Cardinality({j \in DOMAIN v : v[j] = v[i] /\ j <= i}))

\* Twice Series.rank() (method "average"): the rows tied on a value share the
\* mean of the ranks they occupy.
RankAverage2x(v, i) ==
    2 * Cardinality({j \in DOMAIN v : v[j] < v[i]})
    + Cardinality({j \in DOMAIN v : v[j] = v[i]}) + 1

\* Lines 154-158 for row i of t.  rank(pct=True) is the average rank over
\* len(t), so the value here is 200 * len(t) * signal_rank: an integer, and
\* within one frame in the same order as signal_rank.
SignalRank(t, i) ==
    45 * RankAverage2x(Col(t, "Recent Capital Deployed"), i)
    + 35 * RankAverage2x(Col(t, "Capital Velocity"), i)
    + 20 * RankAverage2x(Col(t, "Investor Intent Score"), i)

\* temp["signal_rank"] = ... (lines 154-158).
WithSignalRank(t) ==
    [i \in 1..Len(t) |-> [t[i] EXCEPT !["signal_rank"] = SignalRank(t, i)]]

\* The body of the composite-rank step (lines 154-159): the arrangements
\* sort_values("signal_rank", ascending=False) can produce.
CompositeRank(t) == sort_values(WithSignalRank(t), "signal_rank")

\* A variant of AfterTextInput that interprets the empty query too.
AfterTextInputAlways(x) == "q_sector"

\* Line 139: "if query:".
AfterTextInput(x) == IF x # <<>> THEN "q_sector" ELSE "chart"

\* Lines 161-166: the three bucket restrictions, one after the other.
BucketRestrict(t, b) == LET Is(r) == r["Intent Bucket"] = b IN SelectSeq(t, Is)

\* A variant of BucketNarrow that keeps the rows of any bucket the query names.
BucketNarrowAny(t, q) ==
    LET wanted == (IF Contains(q, kw_hot) THEN {"Hot"} ELSE {})
                  \cup (IF Contains(q, kw_warm) THEN {"Warm"} ELSE {})
                  \cup (IF Contains(q, kw_cold) THEN {"Cold"} ELSE {})
        Keep(r) == wanted = {} \/ r["Intent Bucket"] \in wanted
    IN  SelectSeq(t, Keep)

BucketNarrow(t, q) ==
    LET h == IF Contains(q, kw_hot) THEN BucketRestrict(t, "Hot") ELSE t
        w == IF Contains(q, kw_warm) THEN BucketRestrict(h, "Warm") ELSE h
    IN  IF Contains(q, kw_cold) THEN BucketRestrict(w, "Cold") ELSE w

\* temp.head(5) of line 169 and temp.head(50) of line 203.
TopK == 5

ChartRows == 50

(***************************************************************************)
(* Institutional and Advanced views: the aggregates.                       *)
(***************************************************************************)
\* int(0.2 * len(filtered)) and int(0.1 * len(filtered)) (lines 239, 333): the
\* floating-point products truncate to the integer quotients.
Top20Pct(n) == (2 * n) \div 10

Top10Pct(n) == n \div 10

\* Lines 240-243 and 334-337 on one arrangement of the sorted frame.
CapitalTop(sorted, k) == SumSeq(Col(head(sorted, k), "Recent Capital Deployed"))

TotalCapital(f) == SumSeq(Col(f, "Recent Capital Deployed"))

\* Line 244: no guard on the denominator.
CapitalShare20(top, total) == Divide(top, total)

\* Line 340: capital_top_10 / total_cap if total_cap > 0 else 0.
CapitalShare10(top, total) == IF total > 0 THEN Divide(top, total) ELSE Zero

\* Lines 258-262: one group per GP Name with the sum of recent capital and,
\* for the two means, the pair <<sum, count>>.
GroupByGP(f) ==
    { LET rows == SelectSeq(f, LAMBDA r : r["GP Name"] = g)
      IN  [gp |-> g, capital |-> TotalCapital(rows),
           intent |-> <<SumSeq(Col(rows, "Investor Intent Score")), Len(rows)>>,
           velocity |-> <<SumSeq(Col(rows, "Capital Velocity")), Len(rows)>>]
      : g \in Range(Col(f, "GP Name")) }

\* Line 277: the first row of gp_df sorted by capital, descending; groups
\* that tie on capital may come in either order.
TopGPs(g) == {x.gp : x \in {y \in g : \A z \in g : z.capital <= y.capital}}

\* Lines 313-318: pd.Grouper(freq="MS") makes one bin per calendar month from
\* the first filing month to the last, empty months included with sum 0.
MonthIndex(d) == (d[1] * 12) + (d[2] - 1)

MonthStart(m) == <<m \div 12, (m % 12) + 1, 1>>

MonthlySums(f) ==
    LET ms == {MonthIndex(f[i]["Filing Date"]) : i \in 1..Len(f)}
        lo == CHOOSE x \in ms : \A y \in ms : x <= y
        hi == CHOOSE x \in ms : \A y \in ms : x >= y
    IN  [k \in 1..(hi - lo + 1) |->
           LET InMonth(r) == MonthIndex(r["Filing Date"]) = lo + k - 1
           IN  <<MonthStart(lo + k - 1), TotalCapital(SelectSeq(f, InMonth))>>]

(***************************************************************************)
(* The render cycle: loading, filtering, metrics.                          *)
(***************************************************************************)
\* The values of the script's variables before the script assigns them.
Unassigned ==
    /\ df = <<>> /\ sector_filter = {} /\ intent_filter = {} /\ min_score = 0
    /\ filtered = <<>> /\ metrics = <<>> /\ query = <<>> /\ temp = <<>>
    /\ summary = <<>> /\ insight = <<>> /\ fig = <<>> /\ capital_share_20 = <<>>
    /\ gp_df = {} /\ top_gp = <<>> /\ intent_time = <<>>
    /\ capital_share = <<>> /\ rendered = {} /\ temp_rev = <<>>

\* A script run starts: the selected state and view (lines 74-79).  Nothing
\* is cached yet and the disk has not been looked at.
Start(States, Views) ==
    /\ pc = "load"
    /\ state \in States
    /\ view \in Views
    /\ cached = FALSE
    /\ fileExists = FALSE
    /\ csv = <<>>
    /\ Unassigned

\* load_state_csv with the file missing (lines 46-48): st.error, st.stop().
\* The call does not return, so nothing is cached.
LoadMissing ==
    /\ pc = "load"
    /\ ~cached
    /\ fileExists' = FALSE
    /\ rendered' = rendered \cup {"error: missing data file"}
    /\ pc' = "stopped"
    /\ UNCHANGED <<state, view, cached, csv, df, filterVars, metrics, founderVars,
                   instVars, advVars, temp_rev>>

\* load_state_csv with the file present (lines 50-70, called at line 81): the
\* file on disk is one of Files, and the frame returned is cached.
LoadState(Files) ==
    /\ pc = "load"
    /\ ~cached
    /\ fileExists' = TRUE
    /\ csv' \in Files
    /\ cached' = TRUE
    /\ df' = read_csv(csv')
    /\ pc' = "normalize"
    /\ UNCHANGED <<state, view, filterVars, metrics, founderVars, instVars, advVars,
                   rendered, temp_rev>>

\* load_state_csv(state) answered by st.cache_data (line 43): the body does
\* not run and the caller gets a copy of the frame of the earlier call.
LoadCached ==
    /\ pc = "load"
    /\ cached
    /\ df' = read_csv(csv)
    /\ pc' = "normalize"
    /\ UNCHANGED <<inputVars, filterVars, metrics, founderVars, instVars, advVars,
                   rendered, temp_rev>>

\* GP name normalisation (lines 84-91).
NormalizeNames ==
    /\ pc = "normalize"
    /\ df' = [i \in 1..Len(df) |-> [df[i] EXCEPT !["GP Name"] = NormalizeGP(@)]]
    /\ pc' = "filters"
    /\ UNCHANGED <<inputVars, filterVars, metrics, founderVars, instVars, advVars,
                   rendered, temp_rev>>

\* The sidebar filters and their application (lines 93-114); the widget values
\* are drawn from the given sets of choices.
Filters(SectorSets, IntentSets, Scores) ==
    /\ pc = "filters"
    /\ \E S \in SectorSets, B \in IntentSets, t \in Scores :
          /\ S \subseteq SectorOptions(df)
          /\ sector_filter' = S
          /\ intent_filter' = B
          /\ min_score' = t
          /\ filtered' = ApplyFilters(df, S, B, t)
    /\ pc' = "check"
    /\ UNCHANGED <<inputVars, df, metrics, founderVars, instVars, advVars,
                   rendered, temp_rev>>

\* Lines 116-118.
EmptyCheck ==
    /\ pc = "check"
    /\ pc' = AfterEmptyCheck(filtered)
    /\ rendered' = IF pc' = "stopped"
                   THEN rendered \cup {"warning: no investors matched"} ELSE rendered
    /\ UNCHANGED <<inputVars, df, filterVars, metrics, founderVars, instVars,
                   advVars, temp_rev>>

\* Lines 121-125, then the branch on the view.
ShowMetrics ==
    /\ pc = "metrics"
    /\ metrics' = Metrics(filtered)
    /\ rendered' = rendered \cup {"metrics"}
    /\ pc' = ViewBranch(view)
    /\ UNCHANGED <<inputVars, df, filterVars, founderVars, instVars, advVars,
                   temp_rev>>

(***************************************************************************)
(* Founder view (lines 128-218).                                           *)
(***************************************************************************)
\* Lines 133-139: the text input, temp = filtered.copy(), and "if query:".
TextInput(Queries) ==
    /\ pc = "founder"
    /\ \E x \in Queries : query' = x
    /\ temp' = filtered
    /\ rendered' = rendered \cup {"ask"}
    /\ pc' = AfterTextInput(query')
    /\ UNCHANGED <<inputVars, df, filterVars, metrics, summary, insight, fig,
                   instVars, advVars, temp_rev>>

\* Lines 140-145: sector narrowing.
QuerySector ==
    /\ pc = "q_sector"
    /\ LET m == SectorMatch(str_lower(query))
       IN  temp' = IF m # <<>> THEN SectorContains(temp, m[1]) ELSE temp
    /\ pc' = "q_size"
    /\ UNCHANGED <<inputVars, df, filterVars, metrics, query, summary, insight,
                   fig, instVars, advVars, rendered, temp_rev>>

\* Lines 147-148: the size sort.
QuerySize ==
    /\ pc = "q_size"
    /\ temp' \in IF WantsLargest(str_lower(query))
                 THEN sort_values(temp, "Recent Capital Deployed") ELSE {temp}
    /\ pc' = "q_speed"
    /\ UNCHANGED <<inputVars, df, filterVars, metrics, query, summary, insight,
                   fig, instVars, advVars, rendered, temp_rev>>

\* Lines 150-151: the speed sort.
QuerySpeed ==
    /\ pc = "q_speed"
    /\ temp' \in IF WantsFast(str_lower(query))
                 THEN sort_values(temp, "Capital Velocity") ELSE {temp}
    /\ pc' = "q_composite"
    /\ UNCHANGED <<inputVars, df, filterVars, metrics, query, summary, insight,
                   fig, instVars, advVars, rendered, temp_rev>>

\* Lines 153-159: the composite rank.
QueryComposite ==
    /\ pc = "q_composite"
    /\ temp' \in IF WantsComposite(str_lower(query))
                 THEN CompositeRank(temp) ELSE {temp}
    /\ pc' = "q_bucket"
    /\ UNCHANGED <<inputVars, df, filterVars, metrics, query, summary, insight,
                   fig, instVars, advVars, rendered, temp_rev>>

\* Lines 161-166: bucket narrowing.
QueryBucket ==
    /\ pc = "q_bucket"
    /\ temp' = BucketNarrow(temp, str_lower(query))
    /\ pc' = "q_topk"
    /\ UNCHANGED <<inputVars, df, filterVars, metrics, query, summary, insight,
                   fig, instVars, advVars, rendered, temp_rev>>

\* Lines 168-169: top-K limiting.
QueryTopK ==
    /\ pc = "q_topk"
    /\ temp' = IF WantsTopK(str_lower(query)) THEN head(temp, TopK) ELSE temp
    /\ pc' = "q_summary"
    /\ UNCHANGED <<inputVars, df, filterVars, metrics, query, summary, insight,
                   fig, instVars, advVars, rendered, temp_rev>>

\* Lines 171-200: the summary count, the table and the founder insight.
QuerySummary ==
    /\ pc = "q_summary"
    /\ summary' = <<Len(temp)>>
    /\ insight' = IF temp # <<>> THEN <<temp[1]["Fund Name"]>> ELSE <<>>
    /\ rendered' = rendered \cup {"summary", "table"}
                   \cup (IF temp # <<>> THEN {"founder insight"} ELSE {})
    /\ pc' = "chart"
    /\ UNCHANGED <<inputVars, df, filterVars, metrics, query, temp, fig, instVars,
                   advVars, temp_rev>>

\* Lines 202-218: the scatter chart of temp.head(50).
FounderChart ==
    /\ pc = "chart"
    /\ fig' = head(temp, ChartRows)
    /\ rendered' = rendered \cup {"founder chart"}
    /\ pc' = "done"
    /\ UNCHANGED <<inputVars, df, filterVars, metrics, query, temp, summary,
                   insight, instVars, advVars, temp_rev>>

(***************************************************************************)
(* Institutional view (lines 221-288).                                     *)
(***************************************************************************)
\* Lines 223-255: the deployment map and the top-20% share.
InstitutionalShare ==
    /\ pc = "institutional"
    /\ \E sorted \in sort_values(filtered, "Recent Capital Deployed") :
          capital_share_20' =
              CapitalShare20(CapitalTop(sorted, Top20Pct(Len(filtered))),
                             TotalCapital(filtered))
    /\ rendered' = rendered \cup {"deployment map", "market insight"}
    /\ pc' = "gp"
    /\ UNCHANGED <<inputVars, df, filterVars, metrics, founderVars, gp_df, top_gp,
                   advVars, temp_rev>>

\* Lines 257-288: the GP rollup and the GP signal.
InstitutionalGP ==
    /\ pc = "gp"
    /\ gp_df' = GroupByGP(filtered)
    /\ top_gp' \in {<<g>> : g \in TopGPs(gp_df')}
    /\ rendered' = rendered \cup {"gp chart", "gp signal"}
    /\ pc' = "done"
    /\ UNCHANGED <<inputVars, df, filterVars, metrics, founderVars,
                   capital_share_20, advVars, temp_rev>>

(***************************************************************************)
(* Advanced view (lines 290-342).                                          *)
(***************************************************************************)
\* Lines 293-331: the momentum chart and the monthly sums.
AdvancedMonthly ==
    /\ pc = "advanced"
    /\ intent_time' = MonthlySums(filtered)
    /\ rendered' = rendered \cup {"momentum chart", "monthly chart"}
    /\ pc' = "ratio10"
    /\ UNCHANGED <<inputVars, df, filterVars, metrics, founderVars, instVars,
                   capital_share, temp_rev>>

\* Lines 333-342: the top-10% share.
AdvancedShare ==
    /\ pc = "ratio10"
    /\ \E sorted \in sort_values(filtered, "Recent Capital Deployed") :
          capital_share' =
              CapitalShare10(CapitalTop(sorted, Top10Pct(Len(filtered))),
                             TotalCapital(filtered))
    /\ rendered' = rendered \cup {"top 10% metric"}
    /\ pc' = "done"
    /\ UNCHANGED <<inputVars, df, filterVars, metrics, founderVars, instVars,
                   intent_time, temp_rev>>

(***************************************************************************)
(* The next interaction reruns the script from the top.                    *)
(***************************************************************************)
\* The user changes a widget and the script runs again: the selectbox and the
\* radio of lines 74-79 are read anew (the filters and the query are drawn
\* where the script reads them).  The cache entry of the state just shown
\* serves the next run if that state stays selected; an entry of another
\* state is taken as cleared, so that its file is read from the disk.
Rerun(States) ==
    /\ pc \in {"done", "stopped"}
    /\ pc' = "load"
    /\ state' \in States
    /\ view' \in ViewModes
    /\ IF state' = state /\ cached
       THEN UNCHANGED <<cached, fileExists, csv>>
       ELSE cached' = FALSE /\ fileExists' = FALSE /\ csv' = <<>>
    /\ df' = <<>> /\ sector_filter' = {} /\ intent_filter' = {} /\ min_score' = 0
    /\ filtered' = <<>> /\ metrics' = <<>> /\ query' = <<>> /\ temp' = <<>>
    /\ summary' = <<>> /\ insight' = <<>> /\ fig' = <<>> /\ capital_share_20' = <<>>
    /\ gp_df' = {} /\ top_gp' = <<>> /\ intent_time' = <<>>
    /\ capital_share' = <<>> /\ rendered' = {} /\ temp_rev' = <<>>

\* The composite-rank step (lines 154-159) run on the filtered frame and,
\* a second time, on the same frame in reversed row order.
CompositeBothWays ==
    /\ pc = "founder"
    /\ temp' \in CompositeRank(filtered)
    /\ temp_rev' \in CompositeRank(Reverse(filtered))
    /\ pc' = "ranked"
    /\ UNCHANGED <<inputVars, df, filterVars, metrics, query, summary, insight,
                   fig, instVars, advVars, rendered>>

(***************************************************************************)
(* Specifications.                                                         *)
(***************************************************************************)
qEmpty == <<>>

qEmailThisWeek == <<"w","h","o"," ","s","h","o","u","l","d"," ","I"," ","e","m","a","i","l"," ","t","h","i","s"," ","w","e","e","k">>

qLargestFastAI == <<"l","a","r","g","e","s","t"," ","f","a","s","t"," ","c","h","e","c","k","s"," ","i","n"," ","A","I">>

qColdFintech == <<"c","o","l","d"," ","f","i","n","t","e","c","h"," ","f","u","n","d","s">>

qBigFast == <<"B","i","g"," ","f","a","s","t">>

qLargestMoving == <<"l","a","r","g","e","s","t"," ","m","o","v","i","n","g">>

qLargestQuick == <<"l","a","r","g","e","s","t"," ","q","u","i","c","k">>

qHotCold == <<"h","o","t"," ","c","o","l","d">>

qHot == <<"H","o","t">>

qReachOut == <<"r","e","a","c","h"," ","o","u","t">>

qLargestQuickEmail == <<"l","a","r","g","e","s","t"," ","q","u","i","c","k"," ","e","m","a","i","l">>

qWarmThisWeek == <<"w","a","r","m"," ","t","h","i","s"," ","w","e","e","k">>

\* The queries typed in the small model and in the large one.
SmallQueries == {qEmpty, qEmailThisWeek, qLargestFastAI, qColdFintech, qBigFast,
                 qLargestMoving, qLargestQuick, qHotCold, qHot}

LargeQueries == {qEmpty, qEmailThisWeek, qReachOut, qLargestQuickEmail,
                 qWarmThisWeek, qHot}

\* The views after the metrics.
Views(Queries) ==
    \/ TextInput(Queries) \/ QuerySector \/ QuerySize \/ QuerySpeed
    \/ QueryComposite \/ QueryBucket \/ QueryTopK \/ QuerySummary \/ FounderChart
    \/ InstitutionalShare \/ InstitutionalGP
    \/ AdvancedMonthly \/ AdvancedShare

\* The small model: every state, files of at most MaxRows rows over the row
\* pool, and sidebar choices around the defaults.
Init == Start(STATE_FOLDERS, ViewModes)

Next == \/ LoadMissing \/ LoadState(SmallFiles) \/ LoadCached \/ NormalizeNames
        \/ Filters({{}, {sAI}, {sFintech}}, {{}, DefaultIntent, {"Cold"}},
                   {DefaultMinScore, 50})
        \/ EmptyCheck \/ ShowMetrics
        \/ Views(SmallQueries)
        \/ Rerun(STATE_FOLDERS)

Spec == Init /\ [][Next]_vars

\* The filter model: every state, every file of at most MaxRows rows and every
\* filter state over the thresholds 0, 0.45 and 0.50, up to the empty check.
InitFilter == Start(STATE_FOLDERS, ViewModes)

NextFilter == \/ LoadMissing \/ LoadState(SmallFiles) \/ NormalizeNames
              \/ Filters(SUBSET {sAI, sFintech, sRetail}, SUBSET Buckets,
                         {0, DefaultMinScore, 50})
              \/ EmptyCheck

SpecFilter == InitFilter /\ [][NextFilter]_vars

\* The large model: the patterned files of up to MaxRowsL rows, with the
\* bucket filter at its default or cleared.
InitLarge == Start(STATE_FOLDERS, ViewModes)

NextLarge == \/ LoadMissing \/ LoadState(LargeFiles) \/ LoadCached \/ NormalizeNames
             \/ Filters({{}}, {{}, DefaultIntent}, {DefaultMinScore})
             \/ EmptyCheck \/ ShowMetrics
             \/ Views(LargeQueries)
             \/ Rerun(STATE_FOLDERS)

SpecLarge == InitLarge /\ [][NextLarge]_vars

\* The reversal model: small files in the Founder view, the composite-rank
\* step applied to the filtered frame in both row orders.
InitRev == Start(STATE_FOLDERS, {"Founder View"})

NextRev == \/ LoadMissing \/ LoadState(SmallFiles) \/ NormalizeNames
           \/ Filters({{}}, {{}, DefaultIntent}, {DefaultMinScore})
           \/ EmptyCheck \/ ShowMetrics
           \/ CompositeBothWays

SpecRev == InitRev /\ [][NextRev]_vars

(***************************************************************************)
(* Properties.                                                             *)
(***************************************************************************)
\* The script is in the Founder view and past the text input.
FounderView == view = "Founder View"

\* The position of the row with index label x in frame t (0 when absent).
PositionOf(t, x) ==
    IF \E i \in DOMAIN t : t[i]["index"] = x
    THEN CHOOSE i \in DOMAIN t : t[i]["index"] = x ELSE 0

\* Frame a holds rows of frame b only, each at most once and in b's order.
KeepsOrderOf(a, b) ==
    /\ \A i \in DOMAIN a : \E j \in DOMAIN b : a[i] = b[j]
    /\ \A i, k \in DOMAIN a :
          i < k => PositionOf(b, a[i]["index"]) < PositionOf(b, a[k]["index"])

\* The filter predicate of the specification, for one row.
Qualifies(r) ==
    /\ sector_filter = {} \/ r["Sector"] \in sector_filter
    /\ intent_filter = {} \/ r["Intent Bucket"] \in intent_filter
    /\ r["Investor Intent Score"] >= min_score

\* C1: once the filters have been applied, filtered holds exactly the rows of
\* df that satisfy (sector set empty or sector in it) and (bucket set empty or
\* bucket in it) and score >= threshold, each once and in their order in df.
C1_FilterExact ==
    pc \in {"check", "metrics"} =>
        /\ \A i \in DOMAIN filtered : Qualifies(filtered[i])
        /\ \A j \in DOMAIN df :
              Qualifies(df[j]) =>
                  Cardinality({i \in DOMAIN filtered : filtered[i] = df[j]}) = 1
        /\ KeepsOrderOf(filtered, df)

\* C1's case: all three predicates are active, a row sits exactly on the
\* threshold and is kept, and some but not all rows survive.
C1_Witness ==
    /\ pc = "check"
    /\ sector_filter # {} /\ intent_filter # {}
    /\ Len(filtered) >= 2 /\ Len(filtered) < Len(df)
    /\ \E i \in DOMAIN filtered : filtered[i]["Investor Intent Score"] = min_score

\* What the script renders after the data has been loaded and filtered.
Downstream ==
    {"metrics", "ask", "summary", "table", "founder insight", "founder chart",
     "deployment map", "market insight", "gp chart", "gp signal",
     "momentum chart", "monthly chart", "top 10% metric"}

\* No downstream step has left a result.
NothingDownstream ==
    /\ rendered \cap Downstream = {}
    /\ metrics = <<>> /\ temp = <<>> /\ summary = <<>> /\ insight = <<>>
    /\ fig = <<>> /\ capital_share_20 = <<>> /\ gp_df = {} /\ top_gp = <<>>
    /\ intent_time = <<>> /\ capital_share = <<>>

\* C2: in a render cycle a downstream step (metrics, query interpretation,
\* concentration ratios, GP rollup, monthly aggregation) runs only if the
\* state's file was found and the filter result is not empty; once the file is
\* found missing or the result empty the cycle is stopped and no downstream
\* step of that cycle has run or runs.
C2_StopIsTerminal ==
    /\ (pc \notin {"load", "normalize", "filters", "check", "stopped"}
        \/ ~NothingDownstream)
           => (fileExists /\ Len(filtered) > 0)
    /\ ((~fileExists /\ pc # "load")
        \/ (fileExists /\ pc \notin {"load", "normalize", "filters", "check"}
            /\ filtered = <<>>))
           => (pc = "stopped" /\ NothingDownstream)
    /\ pc = "stopped" => NothingDownstream

\* C2's case: the filters emptied a non-empty frame and the cycle stopped
\* with the warning on the page.
C2_Witness ==
    /\ pc = "stopped" /\ fileExists /\ Len(df) > 0 /\ filtered = <<>>
    /\ "warning: no investors matched" \in rendered

\* C3: for the query "who should I email this week" the result is the first
\* min(5, N) rows of the filtered frame in their order, whatever their sectors.
C3_EmailQueryFirstFive ==
    (FounderView /\ pc = "done" /\ query = qEmailThisWeek) =>
        temp = SubSeq(filtered, 1, Min(5, Len(filtered)))

\* The claim's keyword classes, on the lowercased query.
HasLargeness(q) == Contains(q, kw_largest) \/ Contains(q, kw_big)

HasSpeed(q) == Contains(q, kw_fast) \/ Contains(q, kw_quick) \/ Contains(q, kw_moving)

\* The frame carries the composite of its own rows and is in descending
\* order of it.
RankedByComposite(t) ==
    /\ \A i \in DOMAIN t : t[i]["signal_rank"] # NoColumn
    /\ \A i, k \in DOMAIN t : i < k => t[i]["signal_rank"] >= t[k]["signal_rank"]

\* C4: whenever the query holds a largeness keyword (largest, big) and a speed
\* keyword (fast, quick, moving), the composite-rank step has run and the
\* frame it leaves is in descending order of the composite.
C4_CompositeForEveryPair ==
    (FounderView /\ pc = "q_bucket"
     /\ HasLargeness(str_lower(query)) /\ HasSpeed(str_lower(query)))
        => RankedByComposite(temp)

\* C5: each concentration ratio is 0 when the total recent capital of the
\* filtered frame is 0, and no NaN is reachable in either view.
C5_ZeroTotalGivesZero ==
    /\ capital_share_20 # <<>> =>
          /\ capital_share_20 # NaN
          /\ TotalCapital(filtered) = 0 => capital_share_20 = Zero
    /\ capital_share # <<>> =>
          /\ capital_share # NaN
          /\ TotalCapital(filtered) = 0 => capital_share = Zero

\* The signal_rank the frame t gives the row with index label x.
SignalRankOf(t, x) == t[PositionOf(t, x)]["signal_rank"]

\* No two rows of the frame have the same composite.
NoCompositeTie(t) ==
    \A i, k \in DOMAIN t : i # k => t[i]["signal_rank"] # t[k]["signal_rank"]

\* C6 as stated: the composite-rank step gives the frame and the reversed
\* frame the same final order, ties on the composite included.
C6_SameOrderReversed == pc = "ranked" => temp = temp_rev

\* C6 as amended: every row gets the same composite from the frame and from
\* the reversed frame, the composites come in the same descending sequence,
\* and when no two rows tie on the composite the two final orders are equal.
C6_SameOrderWithoutTies ==
    pc = "ranked" =>
        /\ Len(temp) = Len(filtered) /\ Len(temp_rev) = Len(filtered)
        /\ \A i \in DOMAIN filtered :
              LET x == filtered[i]["index"]
              IN  /\ PositionOf(temp, x) # 0 /\ PositionOf(temp_rev, x) # 0
                  /\ SignalRankOf(temp, x) = SignalRankOf(temp_rev, x)
        /\ Col(temp, "signal_rank") = Col(temp_rev, "signal_rank")
        /\ NoCompositeTie(temp) => temp = temp_rev

\* C6's case: three rows without a tie, which the step reorders.
C6_Witness ==
    /\ pc = "ranked" /\ Len(temp) = 3 /\ NoCompositeTie(temp)
    /\ Col(temp, "index") # Col(filtered, "index")
    /\ Col(temp, "index") # Col(Reverse(filtered), "index")
    /\ temp = temp_rev

\* The buckets the keywords of the lowercased query name.
NamedBuckets(q) ==
    (IF Contains(q, kw_hot) THEN {"Hot"} ELSE {})
    \cup (IF Contains(q, kw_warm) THEN {"Warm"} ELSE {})
    \cup (IF Contains(q, kw_cold) THEN {"Cold"} ELSE {})

\* The claim's urgency keywords, on the lowercased query.
HasUrgency(q) ==
    Contains(q, kw_email) \/ Contains(q, kw_this_week) \/ Contains(q, kw_reach_out)

\* C7: top-K limiting is the last transform.  With an urgency keyword the
\* top-K step leaves the first min(5, M) rows of the M rows it receives, so
\* never more than 5; the steps before it (sorts, composite rank) drop no row
\* and bucket narrowing drops only rows of another bucket; nothing changes the
\* frame after it, and the summary count is its length.
C7_TopKLast ==
    [][ FounderView =>
          /\ (pc = "q_topk" /\ HasUrgency(str_lower(query))) =>
                /\ Len(temp') = Min(5, Len(temp))
                /\ \A i \in DOMAIN temp' : temp'[i] = temp[i]
          /\ (pc = "q_topk" /\ ~HasUrgency(str_lower(query))) => temp' = temp
          /\ pc \in {"q_size", "q_speed", "q_composite"} =>
                /\ Len(temp') = Len(temp)
                /\ {temp'[i]["index"] : i \in DOMAIN temp'}
                      = {temp[i]["index"] : i \in DOMAIN temp}
          /\ pc = "q_bucket" =>
                \A i \in DOMAIN temp :
                    PositionOf(temp', temp[i]["index"]) = 0 =>
                        \E b \in NamedBuckets(str_lower(query)) :
                            temp[i]["Intent Bucket"] # b
          /\ pc \in {"q_summary", "chart"} => temp' = temp
          /\ pc' \in {"q_summary", "chart", "done"} =>
                /\ HasUrgency(str_lower(query')) => Len(temp') <= 5
                /\ summary' # <<>> => summary' = <<Len(temp')>>
      ]_vars

\* C7's case: an urgency query whose interpreter received more than 5 rows
\* ends with 5 rows and the count 5.
C7_Witness ==
    /\ FounderView /\ pc = "done" /\ HasUrgency(str_lower(query))
    /\ Len(filtered) > 5 /\ Len(temp) = 5 /\ summary = <<5>>

\* C8: with an empty query the interpreter applies no step: temp is the
\* filtered frame, unchanged, and no summary is produced; a summary is
\* produced if and only if the query is not empty.
C8_EmptyQueryNoStep ==
    /\ (FounderView /\ pc \in {"q_sector", "q_size", "q_speed", "q_composite",
                                "q_bucket", "q_topk", "q_summary"})
           => query # <<>>
    /\ (FounderView /\ pc \in {"chart", "done"}) =>
           /\ query = <<>> => temp = filtered
           /\ (summary # <<>>) <=> (query # <<>>)
           /\ ("summary" \in rendered) <=> (query # <<>>)

\* C8's case: the Founder view finished with an empty query on a frame of
\* several rows.
C8_Witness ==
    /\ FounderView /\ pc = "done" /\ query = <<>>
    /\ Len(filtered) >= 2 /\ temp = filtered /\ summary = <<>>

\* C9: bucket narrowing keeps, in order, exactly the rows whose bucket is
\* every bucket the query names: with one bucket keyword every result row has
\* that bucket, with two or more the result is empty.
C9_BucketsConjoin ==
    [][ (FounderView /\ pc = "q_bucket") =>
          LET named == NamedBuckets(str_lower(query))
          IN  /\ KeepsOrderOf(temp', temp)
              /\ \A i \in DOMAIN temp :
                    (\A b \in named : temp[i]["Intent Bucket"] = b)
                        <=> PositionOf(temp', temp[i]["index"]) # 0
              /\ Cardinality(named) = 1 =>
                    \A i \in DOMAIN temp' : temp'[i]["Intent Bucket"] \in named
              /\ Cardinality(named) >= 2 => temp' = <<>>
      ]_vars

\* C9's case: "hot cold" on a frame with a Hot and a Cold row ends empty.
C9_Witness ==
    /\ FounderView /\ pc = "done" /\ query = qHotCold
    /\ \E i, k \in DOMAIN filtered :
          /\ filtered[i]["Intent Bucket"] = "Hot"
          /\ filtered[k]["Intent Bucket"] = "Cold"
    /\ temp = <<>> /\ summary = <<0>>

\* The ratio r is the quotient top / total of a positive total.
IsQuotient(r, top, total) == r[2] > 0 /\ r[1] * total = top * r[2]

\* The sum of the k largest values of Recent Capital Deployed.
RECURSIVE LargestSum(_, _)
LargestSum(v, k) ==
    IF k = 0 \/ v = <<>> THEN 0
    ELSE LET m == CHOOSE i \in DOMAIN v : \A j \in DOMAIN v : v[j] <= v[i]
         IN  v[m] + LargestSum([i \in 1..(Len(v) - 1) |->
                                    IF i < m THEN v[i] ELSE v[i + 1]], k - 1)

\* The claim's concentration ratio for k = floor(p * N) top rows.
RatioAsClaimed(r, k) ==
    LET total == TotalCapital(filtered)
    IN  /\ total > 0 =>
              /\ IsQuotient(r, LargestSum(Col(filtered, "Recent Capital Deployed"), k),
                            total)
              /\ r[1] >= 0 /\ r[1] <= r[2]
        /\ k = 0 => r = Zero

\* C10: the ratio for p is the sum of the top floor(p * N) rows over the sum of
\* all N rows; it is 0 when floor(p * N) is 0, and lies in [0, 1] when the
\* total is positive.
C10_RatioDefinition ==
    /\ capital_share_20 # <<>> =>
          RatioAsClaimed(capital_share_20, (2 * Len(filtered)) \div 10)
    /\ capital_share # <<>> =>
          RatioAsClaimed(capital_share, Len(filtered) \div 10)

\* C10 for the frames whose total recent capital is positive.
C10_PositiveTotal == TotalCapital(filtered) > 0 => C10_RatioDefinition

====
